---- MODULE Spec2Model ----
(***************************************************************************)
(* X11 forwarding of the ssh package (src/x11.go): the display allocator   *)
(* NewX11Forwarder with the authority record builder prepareXAuthority,    *)
(* and the forwarding engine ForwardX11Connections.                        *)
(*                                                                         *)
(* Strings and byte slices are sequences of byte values 0..255.            *)
(***************************************************************************)
EXTENDS Integers, Sequences, FiniteSets, TLC

(***************************************************************************)
(* Program constants.                                                      *)
(***************************************************************************)
X11DisplayBasePort == 6000
X11DisplayOffset == 10
\* the bound of the bind loop, for i := 0; i < 50; i++
BindAttempts == 50
\* syscall.AF_LOCAL
AF_LOCAL == 1
\* uint16 arithmetic of the length fields
Uint16Mod == 65536

(***************************************************************************)
(* Bounds of the model.                                                    *)
(***************************************************************************)
\* at most this many of the 50 candidate ports are free when the call starts
MaxFree == 2
\* at most this many connections reach the listener
MaxConns == 2
\* at most this many bytes are sent by the two peers of the connection
\* that carries payload, both directions together
MaxBytes == 2

(***************************************************************************)
(* Errors are records, NilErr is Go's nil error.                           *)
(***************************************************************************)
NilErr == [kind |-> "nil", port |-> 0]
Err(kind) == [kind |-> kind, port |-> 0]
BindErr(port) == [kind |-> "bind", port |-> port]

\* the nil listener
NoListener == 0

(***************************************************************************)
(* strconv.Itoa for a non-negative int, as ASCII digits, and the reading   *)
(* of such a string back (strconv.Atoi on digits).                         *)
(***************************************************************************)
RECURSIVE Itoa(_)
Itoa(n) == IF n < 10 THEN <<48 + n>> ELSE Append(Itoa(n \div 10), 48 + (n % 10))

RECURSIVE Atoi(_)
Atoi(s) == IF Len(s) = 0 THEN 0
           ELSE 10 * Atoi(SubSeq(s, 1, Len(s) - 1)) + (s[Len(s)] - 48)

(***************************************************************************)
(* hex.DecodeString: an odd length or a character that is no hex digit is  *)
(* an error; otherwise each pair of digits gives one byte.                 *)
(***************************************************************************)
IsHexDigit(c) == (c >= 48 /\ c <= 57) \/ (c >= 97 /\ c <= 102) \/ (c >= 65 /\ c <= 70)

HexVal(c) == IF c >= 48 /\ c <= 57 THEN c - 48
             ELSE IF c >= 97 /\ c <= 102 THEN c - 97 + 10
             ELSE c - 65 + 10

HexDecodeString(s) ==
    IF Len(s) % 2 = 1 \/ (\E k \in 1..Len(s) : ~IsHexDigit(s[k]))
    THEN [ok |-> FALSE, bytes |-> <<>>]
    ELSE [ok |-> TRUE,
          bytes |-> [k \in 1..(Len(s) \div 2) |->
                        16 * HexVal(s[2 * k - 1]) + HexVal(s[2 * k])]]

(***************************************************************************)
(* binary.BigEndian.PutUint16 / binary.LittleEndian.PutUint16 as the two   *)
(* bytes written, and the reading of a big-endian uint16.                  *)
(***************************************************************************)
\* PutUint16 writing the low byte first
BigEndian16_LowByteFirst(v) == <<v % 256, (v \div 256) % 256>>

BigEndian16(v) == <<(v \div 256) % 256, v % 256>>
LittleEndian16(v) == <<v % 256, (v \div 256) % 256>>
ReadBigEndian16(b, pos) == 256 * b[pos + 1] + b[pos + 2]

\* copy(buf[pos:], src): copies min(len(buf)-pos, len(src)) bytes
CopyAt(buf, pos, src) ==
    [k \in 1..Len(buf) |->
        IF k > pos /\ k <= pos + Len(src) THEN src[k - pos] ELSE buf[k]]

Zeros(n) == [k \in 1..n |-> 0]

(***************************************************************************)
(* prepareXAuthority(request, seat).  host is the outcome of os.Hostname:  *)
(* [ok, name].  little is isLittleEndian().  The lengths and the write     *)
(* position are uint16.  The result is [err, buf, panic]: PutUint16 panics *)
(* on a slice of fewer than 2 bytes, buf[pos:] panics when pos is beyond   *)
(* len(buf), and copy writes only the bytes that fit.                      *)
(***************************************************************************)
\* binary.*.PutUint16(buf[pos:], v) does not panic
PutFits(buf, pos) == pos + 2 <= Len(buf)

\* buf[pos:] does not panic
SliceFits(buf, pos) == pos <= Len(buf)

prepareXAuthority(request, seat, host, little) ==
    LET dec == HexDecodeString(request.AuthData)
        data == dec.bytes
        hostname == host.name
        number == Itoa(seat)
        addrLen == Len(hostname) % Uint16Mod
        numberLen == Len(number) % Uint16Mod
        nameLen == Len(request.AuthProtocol) % Uint16Mod
        dataLen == Len(data) % Uint16Mod
        buf0 == Zeros((addrLen + numberLen + nameLen + dataLen + 10) % Uint16Mod)
        pos0 == 0
        buf1 == CopyAt(buf0, pos0,
                       IF little THEN LittleEndian16(AF_LOCAL) ELSE BigEndian16(AF_LOCAL))
        pos1 == (pos0 + 2) % Uint16Mod
        buf2 == CopyAt(buf1, pos1, BigEndian16(addrLen))
        pos2 == (pos1 + 2) % Uint16Mod
        buf3 == CopyAt(buf2, pos2, hostname)
        pos3 == (pos2 + addrLen) % Uint16Mod
        buf4 == CopyAt(buf3, pos3, BigEndian16(numberLen))
        pos4 == (pos3 + 2) % Uint16Mod
        buf5 == CopyAt(buf4, pos4, number)
        pos5 == (pos4 + numberLen) % Uint16Mod
        buf6 == CopyAt(buf5, pos5, BigEndian16(nameLen))
        pos6 == (pos5 + 2) % Uint16Mod
        buf7 == CopyAt(buf6, pos6, request.AuthProtocol)
        pos7 == (pos6 + nameLen) % Uint16Mod
        buf8 == CopyAt(buf7, pos7, BigEndian16(dataLen))
        pos8 == (pos7 + 2) % Uint16Mod
        buf9 == CopyAt(buf8, pos8, data)
        fits == /\ PutFits(buf0, pos0)
                /\ PutFits(buf0, pos1)
                /\ SliceFits(buf0, pos2)
                /\ PutFits(buf0, pos3)
                /\ SliceFits(buf0, pos4)
                /\ PutFits(buf0, pos5)
                /\ SliceFits(buf0, pos6)
                /\ PutFits(buf0, pos7)
                /\ SliceFits(buf0, pos8)
    IN  IF ~dec.ok THEN [err |-> Err("hex"), buf |-> <<>>, panic |-> FALSE]
        ELSE IF ~host.ok THEN [err |-> Err("hostname"), buf |-> <<>>, panic |-> FALSE]
        ELSE IF ~fits THEN [err |-> NilErr, buf |-> <<>>, panic |-> TRUE]
        ELSE [err |-> NilErr, buf |-> buf9, panic |-> FALSE]

(***************************************************************************)
(* The display number embedded in an authority record: the second          *)
(* length-prefixed field after the 2-byte family, read as decimal digits.  *)
(***************************************************************************)
RecordNumber(buf) ==
    LET addrLen == ReadBigEndian16(buf, 2)
        numPos == 4 + addrLen
        numberLen == ReadBigEndian16(buf, numPos)
    IN  Atoi(SubSeq(buf, numPos + 2 + 1, numPos + 2 + numberLen))

(***************************************************************************)
(* State.                                                                  *)
(*                                                                         *)
(* NewX11Forwarder:                                                        *)
(*   apc          position in the call                                     *)
(*   request      the X11 request passed in                                *)
(*   littleEndian isLittleEndian() of the host                             *)
(*   freePorts    the candidate ports no other process occupies            *)
(*   i            the loop index                                           *)
(*   err          the function-scoped err (line 112)                       *)
(*   bindErr      the loop-scoped err of the latest net.Listen (line 125)  *)
(*   ln           the listener bound by the call, as its port              *)
(*   buf          the record built by prepareXAuthority                    *)
(*   attempts     the ports handed to net.Listen, in order                 *)
(*   ret          what the call returned: [ln, file, err]                  *)
(* Shared with ForwardX11Connections:                                      *)
(*   lnOpen       the ports on which this process holds an open listener   *)
(*   xauthExists  the temporary authority file exists at its path          *)
(*   xauthContent the bytes of that file                                   *)
(* ForwardX11Connections:                                                   *)
(*   engine       "Running" in the accept loop, "Stopped" once returned    *)
(*   acceptFailures  how many l.Accept() calls returned an error           *)
(*   removeCalls  how many times the engine called os.Remove on the file   *)
(*   nAccepted    how many connections l.Accept() returned                 *)
(*   tcpListener  the listener hands out *net.TCPConn connections          *)
(*   payloadConn  the accepted connection whose peers send bytes; the      *)
(*                peers of the others only open and end their streams      *)
(*   conns        the per-connection tasks, see NoConn                     *)
(* The request parsers:                                                    *)
(*   parseIn      the payload handed to a parser                           *)
(*   parseOut     the parser applied and what it returned                  *)
(* prepareXAuthority on its own:                                           *)
(*   xaIn         the host name, seat, protocol name and auth data given   *)
(*   xaOut        what prepareXAuthority returned                          *)
(* Concurrent calls of NewX11Forwarder:                                    *)
(*   calls        the state of each call, see NoCall                       *)
(*   tempFiles    the names of the temporary files that exist              *)
(***************************************************************************)
VARIABLES apc, request, littleEndian, freePorts, i, err, bindErr, ln, buf,
          attempts, ret, lnOpen, xauthExists, xauthContent,
          engine, acceptFailures, removeCalls, nAccepted, tcpListener,
          payloadConn, conns,
          parseIn, parseOut, xaIn, xaOut, calls, tempFiles

allocVars == <<apc, request, littleEndian, freePorts, i, err, bindErr, ln, buf,
               attempts, ret>>
fileVars == <<lnOpen, xauthExists, xauthContent>>

fwdVars == <<engine, acceptFailures, removeCalls, nAccepted, tcpListener,
             payloadConn, conns>>

pureVars == <<parseIn, parseOut, xaIn, xaOut>>
raceVars == <<calls, tempFiles>>
auxVars == <<pureVars, raceVars>>

vars == <<allocVars, fileVars, fwdVars, auxVars>>

CandidatePort(k) == X11DisplayBasePort + X11DisplayOffset + k
CandidatePorts == {CandidatePort(k) : k \in 0..(BindAttempts - 1)}

\* the sets of at most n candidate ports
RECURSIVE FreeSets(_)
FreeSets(n) == IF n = 0 THEN {{}}
               ELSE FreeSets(n - 1) \cup
                    {S \cup {p} : S \in FreeSets(n - 1), p \in CandidatePorts}

\* "MIT" with auth data "a1", "a" (odd length) and "zz" (no hex digits)
Requests == {[AuthProtocol |-> <<77, 73, 84>>, AuthData |-> <<97, 49>>],
             [AuthProtocol |-> <<77, 73, 84>>, AuthData |-> <<97>>],
             [AuthProtocol |-> <<77, 73, 84>>, AuthData |-> <<122, 122>>]}

\* the outcomes of os.Hostname
Hostnames == {[ok |-> TRUE, name |-> <<104, 49>>], [ok |-> FALSE, name |-> <<>>]}

NoReturn == [ln |-> NoListener, file |-> FALSE, err |-> NilErr]

ConnIds == 1..MaxConns

(***************************************************************************)
(* One accepted connection and its task (the goroutine of lines 160-189):  *)
(*   pc         "idle" not accepted, "open" before OpenChannel, "wait" in  *)
(*              wg.Wait(), "done" returned                                 *)
(*   openCalls  calls of sshConn.OpenChannel                               *)
(*   chan       the sub-channel: "none", "open", "closed"                  *)
(*   chanCloses, connCloses   calls of channel.Close() and conn.Close()    *)
(*   closed     what the task closed, in the order of the calls            *)
(*   connOpen   the local socket is open                                   *)
(*   wg         the WaitGroup counter                                      *)
(*   l2r, r2l   the copy goroutines: "none", "copy", or how io.Copy        *)
(*              returned, "eof" or "error", the goroutine then being done  *)
(*   clientSent bytes the local client wrote                               *)
(*   sockBuf    bytes of the client not yet read from conn                 *)
(*   chanIn     bytes written to the sub-channel                           *)
(*   chanWriteCloses   calls of channel.CloseWrite()                       *)
(*   remoteSent, chanBuf, localIn, localWriteCloses                        *)
(*              the same for the remote-to-local direction                 *)
(***************************************************************************)
NoConn == [pc |-> "idle", openCalls |-> 0, chan |-> "none", chanCloses |-> 0,
           connCloses |-> 0, closed |-> <<>>, connOpen |-> FALSE, wg |-> 0,
           l2r |-> "none", r2l |-> "none",
           clientSent |-> <<>>, sockBuf |-> <<>>,
           chanIn |-> <<>>, chanWriteCloses |-> 0,
           remoteSent |-> <<>>, chanBuf |-> <<>>,
           localIn |-> <<>>, localWriteCloses |-> 0]

\* ForwardX11Connections has not been started
FwdIdle ==
    /\ engine = "NotStarted"
    /\ acceptFailures = 0
    /\ removeCalls = 0
    /\ nAccepted = 0
    /\ tcpListener = TRUE
    /\ payloadConn = 1
    /\ conns = [c \in ConnIds |-> NoConn]

\* no parser and no prepareXAuthority has been applied
NoInput == [kind |-> "none"]
NoOutput == [fn |-> "none"]

PureIdle ==
    /\ parseIn = <<>>
    /\ parseOut = NoOutput
    /\ xaIn = NoInput
    /\ xaOut = NoOutput

\* no concurrent call of NewX11Forwarder has been made
RaceIdle ==
    /\ calls = <<>>
    /\ tempFiles = {}

AllocInit ==
    /\ apc = "start"
    /\ request \in Requests
    /\ littleEndian \in BOOLEAN
    /\ freePorts \in FreeSets(MaxFree)
    /\ i = 0
    /\ err = NilErr
    /\ bindErr = NilErr
    /\ ln = NoListener
    /\ buf = <<>>
    /\ attempts = <<>>
    /\ ret = NoReturn
    /\ lnOpen = {}
    /\ xauthExists = FALSE
    /\ xauthContent = <<>>
    /\ FwdIdle
    /\ PureIdle
    /\ RaceIdle

(***************************************************************************)
(* NewX11Forwarder, lines 111-148.  ln.Close() and os.Remove of the file   *)
(* the call created are taken to succeed; their results are not read by    *)
(* the code.                                                               *)
(***************************************************************************)
\* xauthFile, err := os.CreateTemp("", ".Xauthority"): err is the function's
CreateTemp ==
    /\ apc = "start"
    /\ \/ /\ err' = NilErr
          /\ xauthExists' = TRUE
          /\ xauthContent' = <<>>
          /\ apc' = "loop"
          /\ ret' = ret
       \/ /\ err' = Err("createtemp")
          /\ ret' = [ln |-> NoListener, file |-> FALSE, err |-> Err("createtemp")]
          /\ apc' = "returned"
          /\ UNCHANGED <<xauthExists, xauthContent>>
    /\ UNCHANGED <<request, littleEndian, freePorts, i, bindErr, ln, buf, attempts, lnOpen>>
    /\ UNCHANGED <<fwdVars, auxVars>>

\* net.Listen binding a port that a listener of this process already holds
ListenSucceeds_SharedBind(port) == port \in freePorts

\* net.Listen on a port: it binds when no other process and no listener of
\* this process holds the port
ListenSucceeds(port) == port \in freePorts /\ port \notin lnOpen

\* ln, err := net.Listen("tcp", addr) in the loop body: this err is a new
\* variable of the loop body; the function's err is not assigned
ListenOk ==
    /\ apc = "loop"
    /\ i < BindAttempts
    /\ LET port == CandidatePort(i)
       IN  /\ ListenSucceeds(port)
           /\ attempts' = Append(attempts, port)
           /\ bindErr' = NilErr
           /\ ln' = port
           /\ lnOpen' = lnOpen \cup {port}
    /\ apc' = "prepare"
    /\ UNCHANGED <<request, littleEndian, freePorts, i, err, buf, ret,
                   xauthExists, xauthContent>>
    /\ UNCHANGED <<fwdVars, auxVars>>

\* the bind failed: log.Println(err) and the next candidate
ListenFail ==
    /\ apc = "loop"
    /\ i < BindAttempts
    /\ LET port == CandidatePort(i)
       IN  /\ ~ListenSucceeds(port)
           /\ attempts' = Append(attempts, port)
           /\ bindErr' = BindErr(port)
    /\ i' = i + 1
    /\ UNCHANGED <<apc, request, littleEndian, freePorts, err, ln, buf, ret,
                   lnOpen, xauthExists, xauthContent>>
    /\ UNCHANGED <<fwdVars, auxVars>>

\* PrepareOk passing the loop index as the seat, without the display offset
PrepareOk_SeatWithoutOffset ==
    /\ apc = "prepare"
    /\ \E host \in Hostnames :
         LET r == prepareXAuthority(request, i, host, littleEndian)
         IN  /\ r.err = NilErr
             /\ buf' = r.buf
    /\ apc' = "write"
    /\ UNCHANGED <<request, littleEndian, freePorts, i, err, bindErr, ln, attempts,
                   ret, lnOpen, xauthExists, xauthContent>>
    /\ UNCHANGED <<fwdVars, auxVars>>

\* buf, err := prepareXAuthority(request, X11DisplayOffset+i), lines 127-132
PrepareOk ==
    /\ apc = "prepare"
    /\ \E host \in Hostnames :
         LET r == prepareXAuthority(request, X11DisplayOffset + i, host, littleEndian)
         IN  /\ r.err = NilErr
             /\ buf' = r.buf
    /\ apc' = "write"
    /\ UNCHANGED <<request, littleEndian, freePorts, i, err, bindErr, ln, attempts,
                   ret, lnOpen, xauthExists, xauthContent>>
    /\ UNCHANGED <<fwdVars, auxVars>>

\* the record could not be built: ln.Close(), os.Remove, return nil, nil, err
PrepareFail ==
    /\ apc = "prepare"
    /\ \E host \in Hostnames :
         LET r == prepareXAuthority(request, X11DisplayOffset + i, host, littleEndian)
         IN  /\ r.err # NilErr
             /\ ret' = [ln |-> NoListener, file |-> FALSE, err |-> r.err]
    /\ lnOpen' = lnOpen \ {ln}
    /\ xauthExists' = FALSE
    /\ xauthContent' = <<>>
    /\ apc' = "returned"
    /\ UNCHANGED <<request, littleEndian, freePorts, i, err, bindErr, ln, buf, attempts>>
    /\ UNCHANGED <<fwdVars, auxVars>>

\* WriteOk going on to the return with the last byte of buf unwritten
WriteOk_PartialWrite ==
    /\ apc = "write"
    /\ xauthExists' = TRUE
    /\ xauthContent' = SubSeq(buf, 1, Len(buf) - 1)
    /\ apc' = "return"
    /\ UNCHANGED <<request, littleEndian, freePorts, i, err, bindErr, ln, buf,
                   attempts, ret, lnOpen>>
    /\ UNCHANGED <<fwdVars, auxVars>>

\* err = os.WriteFile(xauthFile.Name(), buf, 0600) succeeded, line 134
WriteOk ==
    /\ apc = "write"
    /\ xauthExists' = TRUE
    /\ xauthContent' = buf
    /\ apc' = "return"
    /\ UNCHANGED <<request, littleEndian, freePorts, i, err, bindErr, ln, buf,
                   attempts, ret, lnOpen>>
    /\ UNCHANGED <<fwdVars, auxVars>>

\* WriteFail returning the error without ln.Close()
WriteFail_ListenerLeftOpen ==
    /\ apc = "write"
    /\ xauthExists' = FALSE
    /\ xauthContent' = <<>>
    /\ ret' = [ln |-> NoListener, file |-> FALSE, err |-> Err("write")]
    /\ apc' = "returned"
    /\ UNCHANGED <<request, littleEndian, freePorts, i, err, bindErr, ln, buf,
                   attempts, lnOpen>>
    /\ UNCHANGED <<fwdVars, auxVars>>

\* os.WriteFile failed, having written some prefix of buf or nothing:
\* ln.Close(), os.Remove, return nil, nil, err, lines 135-139
WriteFail ==
    /\ apc = "write"
    /\ lnOpen' = lnOpen \ {ln}
    /\ xauthExists' = FALSE
    /\ xauthContent' = <<>>
    /\ ret' = [ln |-> NoListener, file |-> FALSE, err |-> Err("write")]
    /\ apc' = "returned"
    /\ UNCHANGED <<request, littleEndian, freePorts, i, err, bindErr, ln, buf, attempts>>
    /\ UNCHANGED <<fwdVars, auxVars>>

\* return ln, xauthFile, nil, line 141
ReturnListener ==
    /\ apc = "return"
    /\ ret' = [ln |-> ln, file |-> TRUE, err |-> NilErr]
    /\ apc' = "returned"
    /\ UNCHANGED <<request, littleEndian, freePorts, i, err, bindErr, ln, buf,
                   attempts, lnOpen, xauthExists, xauthContent>>
    /\ UNCHANGED <<fwdVars, auxVars>>

\* the loop ended: os.Remove(xauthFile.Name()); return nil, nil, err,
\* lines 146-147, where err is the function's err
Exhausted ==
    /\ apc = "loop"
    /\ i >= BindAttempts
    /\ xauthExists' = FALSE
    /\ xauthContent' = <<>>
    /\ ret' = [ln |-> NoListener, file |-> FALSE, err |-> err]
    /\ apc' = "returned"
    /\ UNCHANGED <<request, littleEndian, freePorts, i, err, bindErr, ln, buf,
                   attempts, lnOpen>>
    /\ UNCHANGED <<fwdVars, auxVars>>

AllocNext ==
    \/ CreateTemp
    \/ ListenOk
    \/ ListenFail
    \/ PrepareOk
    \/ PrepareFail
    \/ WriteOk
    \/ WriteFail
    \/ ReturnListener
    \/ Exhausted

SpecAlloc == AllocInit /\ [][AllocNext]_vars

(***************************************************************************)
(* ForwardX11Connections(l, xauth, s), lines 152-191.  l is the listener   *)
(* NewX11Forwarder returned, ret.ln.  The origin address payload of        *)
(* OpenChannel (lines 162-167) and the goroutine discarding the channel's  *)
(* requests (line 173) hold no state the engine reads back and are left    *)
(* out.  A peer's half-close is seen by the engine only as the             *)
(* end-of-stream its io.Copy reads, so both are one step (L2REof, R2LEof). *)
(***************************************************************************)
\* the state NewX11Forwarder leaves when it returns a listener on the first
\* candidate port, with ForwardX11Connections started on it
FwdInit ==
    /\ apc = "returned"
    /\ request = [AuthProtocol |-> <<77, 73, 84>>, AuthData |-> <<97, 49>>]
    /\ littleEndian = TRUE
    /\ freePorts = {CandidatePort(0)}
    /\ i = 0
    /\ err = NilErr
    /\ bindErr = NilErr
    /\ ln = CandidatePort(0)
    /\ buf = prepareXAuthority(request, X11DisplayOffset,
                               [ok |-> TRUE, name |-> <<104, 49>>], TRUE).buf
    /\ attempts = <<CandidatePort(0)>>
    /\ ret = [ln |-> CandidatePort(0), file |-> TRUE, err |-> NilErr]
    /\ lnOpen = {CandidatePort(0)}
    /\ xauthExists = TRUE
    /\ xauthContent = buf
    /\ engine = "Running"
    /\ acceptFailures = 0
    /\ removeCalls = 0
    /\ nAccepted = 0
    /\ tcpListener \in BOOLEAN
    /\ payloadConn \in ConnIds
    /\ conns = [c \in ConnIds |-> NoConn]
    /\ PureIdle
    /\ RaceIdle

ListenerOpen == ret.ln \in lnOpen

\* the bytes sent so far by the peers of connection c
BytesSent(c) == Len(conns[c].clientSent) + Len(conns[c].remoteSent)

\* the k-th byte a peer of connection c sends: distinct per position and
\* connection, so that loss, reordering and crossing of streams show
StreamByte(c, k) == (16 * c + k) % 256

\* conn, err := l.Accept() returned a connection; go func(conn net.Conn),
\* lines 156-160.  defer conn.Close() is registered by the task.
AcceptOk ==
    /\ engine = "Running"
    /\ ListenerOpen
    /\ nAccepted < MaxConns
    /\ nAccepted' = nAccepted + 1
    /\ conns' = [conns EXCEPT ![nAccepted + 1] =
                     [NoConn EXCEPT !.pc = "open", !.connOpen = TRUE]]
    /\ UNCHANGED <<engine, acceptFailures, removeCalls, tcpListener, payloadConn>>
    /\ UNCHANGED <<allocVars, fileVars, auxVars>>

\* AcceptFail without the deferred os.Remove
AcceptFail_NoRemove ==
    /\ engine = "Running"
    /\ acceptFailures' = acceptFailures + 1
    /\ engine' = "Stopped"
    /\ UNCHANGED <<removeCalls, nAccepted, tcpListener, payloadConn, conns>>
    /\ UNCHANGED <<allocVars, fileVars, auxVars>>

\* AcceptFail closing the connections and sub-channels of the tasks in flight
AcceptFail_ClosesConnections ==
    /\ engine = "Running"
    /\ acceptFailures' = acceptFailures + 1
    /\ engine' = "Stopped"
    /\ removeCalls' = removeCalls + 1
    /\ xauthExists' = FALSE
    /\ xauthContent' = <<>>
    /\ conns' = [c \in ConnIds |->
                    IF conns[c].connOpen
                    THEN [conns[c] EXCEPT !.connOpen = FALSE,
                                          !.chan = IF @ = "open" THEN "closed" ELSE @]
                    ELSE conns[c]]
    /\ UNCHANGED <<nAccepted, tcpListener, payloadConn, lnOpen>>
    /\ UNCHANGED <<allocVars, auxVars>>

\* l.Accept() returned an error: return, and the deferred os.Remove runs,
\* lines 153, 157-159.  Accept fails when the listener is closed, and it can
\* fail while the listener is open (EMFILE, ENFILE, ...).
AcceptFail ==
    /\ engine = "Running"
    /\ acceptFailures' = acceptFailures + 1
    /\ engine' = "Stopped"
    /\ removeCalls' = removeCalls + 1
    /\ xauthExists' = FALSE
    /\ xauthContent' = <<>>
    /\ UNCHANGED <<nAccepted, tcpListener, payloadConn, conns, lnOpen>>
    /\ UNCHANGED <<allocVars, auxVars>>

\* the owner of the listener closes it (outside ForwardX11Connections)
CloseListener ==
    /\ engine # "NotStarted"
    /\ ListenerOpen
    /\ lnOpen' = lnOpen \ {ret.ln}
    /\ UNCHANGED <<xauthExists, xauthContent>>
    /\ UNCHANGED <<allocVars, fwdVars, auxVars>>

FwdUnchangedBut(newConns) ==
    /\ conns' = newConns
    /\ UNCHANGED <<engine, acceptFailures, removeCalls, nAccepted, tcpListener,
                   payloadConn>>
    /\ UNCHANGED <<allocVars, fileVars, auxVars>>

\* channel, reqs, err := sshConn.OpenChannel(x11ChannelType, payload)
\* succeeded; defer channel.Close(); wg.Add(2); both copy goroutines start,
\* lines 162-187
OpenChannelOk(c) ==
    /\ conns[c].pc = "open"
    /\ FwdUnchangedBut([conns EXCEPT ![c].openCalls = @ + 1,
                                     ![c].chan = "open",
                                     ![c].wg = 2,
                                     ![c].l2r = "copy",
                                     ![c].r2l = "copy",
                                     ![c].pc = "wait"])

\* OpenChannelFail returning from ForwardX11Connections itself, as the
\* return would without the go statement
OpenChannelFail_StopsEngine(c) ==
    /\ conns[c].pc = "open"
    /\ conns' = [conns EXCEPT ![c].openCalls = @ + 1,
                              ![c].connOpen = FALSE,
                              ![c].connCloses = @ + 1,
                              ![c].closed = Append(@, "conn"),
                              ![c].pc = "done"]
    /\ engine' = "Stopped"
    /\ removeCalls' = removeCalls + 1
    /\ xauthExists' = FALSE
    /\ xauthContent' = <<>>
    /\ UNCHANGED <<acceptFailures, nAccepted, tcpListener, payloadConn, lnOpen>>
    /\ UNCHANGED <<allocVars, auxVars>>

\* OpenChannel failed: return, lines 169-171, and the deferred
\* conn.Close() runs, line 161
OpenChannelFail(c) ==
    /\ conns[c].pc = "open"
    /\ FwdUnchangedBut([conns EXCEPT ![c].openCalls = @ + 1,
                                     ![c].connOpen = FALSE,
                                     ![c].connCloses = @ + 1,
                                     ![c].closed = Append(@, "conn"),
                                     ![c].pc = "done"])

\* the local client writes its next byte
ClientSend(c) ==
    /\ conns[c].connOpen
    /\ conns[c].l2r \in {"none", "copy"}
    /\ c = payloadConn
    /\ BytesSent(c) < MaxBytes
    /\ LET b == StreamByte(c, Len(conns[c].clientSent) + 1)
       IN  FwdUnchangedBut([conns EXCEPT ![c].clientSent = Append(@, b),
                                         ![c].sockBuf = Append(@, b)])

\* the remote side writes its next byte to the sub-channel
RemoteSend(c) ==
    /\ conns[c].chan = "open"
    /\ conns[c].r2l = "copy"
    /\ c = payloadConn
    /\ BytesSent(c) < MaxBytes
    /\ LET b == StreamByte(c, 128 + Len(conns[c].remoteSent) + 1)
       IN  FwdUnchangedBut([conns EXCEPT ![c].remoteSent = Append(@, b),
                                         ![c].chanBuf = Append(@, b)])

\* io.Copy(channel, conn) moves one byte, line 184
L2RCopy(c) ==
    /\ conns[c].l2r = "copy"
    /\ conns[c].sockBuf # <<>>
    /\ FwdUnchangedBut([conns EXCEPT ![c].chanIn = Append(@, Head(conns[c].sockBuf)),
                                     ![c].sockBuf = Tail(@)])

\* L2RReturn without wg.Done()
L2RReturn_NoDone(c, exit) ==
    FwdUnchangedBut([conns EXCEPT ![c].l2r = exit,
                                  ![c].chanWriteCloses = @ + 1])

\* the rest of the local-to-remote goroutine once io.Copy returned with
\* exit: channel.CloseWrite(); wg.Done(), lines 185-186
L2RReturn(c, exit) ==
    FwdUnchangedBut([conns EXCEPT ![c].l2r = exit,
                                  ![c].chanWriteCloses = @ + 1,
                                  ![c].wg = @ - 1])

\* L2REof returning at the half-close with bytes still unread
L2REof_BufferedBytesDropped(c) ==
    /\ conns[c].l2r = "copy"
    /\ L2RReturn(c, "eof")

\* the local client has half-closed (or closed) its side and, every byte
\* before it read, io.Copy(channel, conn) reads end-of-stream and returns
L2REof(c) ==
    /\ conns[c].l2r = "copy"
    /\ conns[c].sockBuf = <<>>
    /\ L2RReturn(c, "eof")

\* io.Copy(channel, conn) returns on a read or write error
L2RError(c) ==
    /\ conns[c].l2r = "copy"
    /\ L2RReturn(c, "error")

\* io.Copy(conn, channel) moves one byte, line 177
R2LCopy(c) ==
    /\ conns[c].r2l = "copy"
    /\ conns[c].chanBuf # <<>>
    /\ FwdUnchangedBut([conns EXCEPT ![c].localIn = Append(@, Head(conns[c].chanBuf)),
                                     ![c].chanBuf = Tail(@)])

\* R2LReturn calling CloseWrite whatever the connection is
R2LReturn_AlwaysCloseWrite(c, exit) ==
    FwdUnchangedBut([conns EXCEPT ![c].r2l = exit,
                                  ![c].localWriteCloses = @ + 1,
                                  ![c].wg = @ - 1])

\* the rest of the remote-to-local goroutine once io.Copy returned with
\* exit: tcpConn.CloseWrite() if conn is a *net.TCPConn; wg.Done(),
\* lines 178-181
R2LReturn(c, exit) ==
    FwdUnchangedBut([conns EXCEPT ![c].r2l = exit,
                                  ![c].localWriteCloses =
                                      IF tcpListener THEN @ + 1 ELSE @,
                                  ![c].wg = @ - 1])

\* the remote side has ended its stream and, every byte before it read,
\* io.Copy(conn, channel) reads end-of-stream and returns
R2LEof(c) ==
    /\ conns[c].r2l = "copy"
    /\ conns[c].chanBuf = <<>>
    /\ R2LReturn(c, "eof")

\* io.Copy(conn, channel) returns on a read or write error
R2LError(c) ==
    /\ conns[c].r2l = "copy"
    /\ R2LReturn(c, "error")

\* WaitDone after wg.Add(1): one wg.Done() is enough
WaitDone_AfterOne(c) == conns[c].wg <= 1

\* wg.Wait() may return
WaitDone(c) == conns[c].wg = 0

\* TaskReturn without the deferred channel.Close()
TaskReturn_ChannelLeftOpen(c) ==
    /\ conns[c].pc = "wait"
    /\ WaitDone(c)
    /\ FwdUnchangedBut([conns EXCEPT ![c].connOpen = FALSE,
                                     ![c].connCloses = @ + 1,
                                     ![c].closed = Append(@, "conn"),
                                     ![c].pc = "done"])

\* wg.Wait() returned, line 188, and the task returns: the deferred calls
\* run last registered first, channel.Close() (line 172) and then
\* conn.Close() (line 161)
TaskReturn(c) ==
    /\ conns[c].pc = "wait"
    /\ WaitDone(c)
    /\ FwdUnchangedBut([conns EXCEPT ![c].chan = "closed",
                                     ![c].chanCloses = @ + 1,
                                     ![c].connOpen = FALSE,
                                     ![c].connCloses = @ + 1,
                                     ![c].closed = @ \o <<"channel", "conn">>,
                                     ![c].pc = "done"])

FwdNext ==
    \/ AcceptOk
    \/ AcceptFail
    \/ CloseListener
    \/ \E c \in ConnIds : OpenChannelOk(c)
    \/ \E c \in ConnIds : OpenChannelFail(c)
    \/ \E c \in ConnIds : ClientSend(c)
    \/ \E c \in ConnIds : RemoteSend(c)
    \/ \E c \in ConnIds : L2RCopy(c)
    \/ \E c \in ConnIds : L2REof(c)
    \/ \E c \in ConnIds : L2RError(c)
    \/ \E c \in ConnIds : R2LCopy(c)
    \/ \E c \in ConnIds : R2LEof(c)
    \/ \E c \in ConnIds : R2LError(c)
    \/ \E c \in ConnIds : TaskReturn(c)

SpecFwd == FwdInit /\ [][FwdNext]_vars

(***************************************************************************)
(* Claims about NewX11Forwarder, under SpecAlloc.                          *)
(***************************************************************************)
\* all 50 binds of the call failed
AllBindsFailed == Len(attempts) = BindAttempts /\ bindErr # NilErr

\* C1: when every one of the 50 binds fails, NewX11Forwarder returns a
\* non-nil error, the error of the 50th bind attempt.
C1_ExhaustionReturnsLastBindError ==
    (apc = "returned" /\ AllBindsFailed) =>
        (ret.err # NilErr /\ ret.err = bindErr)

\* C2: on every return that hands no listener to the caller, no listener
\* bound by the call is still open and the temporary authority file does
\* not exist at its path.
C2_FailureLeavesNothing ==
    (apc = "returned" /\ ret.ln = NoListener) =>
        (ln \notin lnOpen /\ lnOpen = {} /\ ~xauthExists)

\* a listener was bound and the call then failed on the host name lookup
C2_Witness ==
    /\ apc = "returned"
    /\ ret.ln = NoListener
    /\ ln # NoListener
    /\ ret.err = Err("hostname")

\* C3: with a non-empty set of free candidate ports, a call whose temporary
\* file, record and write succeed returns a listener; a returned listener is
\* bound to the lowest free candidate 6000+10+k after exactly k+1 bind
\* attempts in ascending order, and the display number in the authority
\* file is 10+k, the bound port minus 6000.
C3_LowestFreePort ==
    /\ (apc = "returned" /\ freePorts # {} /\ ret.ln = NoListener) =>
           ret.err.kind \in {"createtemp", "hex", "hostname", "write"}
    /\ (apc = "returned" /\ ret.ln # NoListener) =>
           LET k == Len(attempts) - 1
           IN  /\ k >= 0
               /\ ret.ln = CandidatePort(k)
               /\ ret.ln \in freePorts
               /\ \A p \in freePorts : p >= ret.ln
               /\ ret.ln \in lnOpen
               /\ attempts = [j \in 1..(k + 1) |-> CandidatePort(j - 1)]
               /\ ret.err = NilErr
               /\ xauthExists
               /\ RecordNumber(xauthContent) = X11DisplayOffset + k
               /\ RecordNumber(xauthContent) = ret.ln - X11DisplayBasePort

\* two ports were free and the listener is on the lower one, not the first
\* candidate
C3_Witness ==
    /\ apc = "returned"
    /\ ret.ln # NoListener
    /\ Cardinality(freePorts) = 2
    /\ Len(attempts) > 1

(***************************************************************************)
(* Claims about ForwardX11Connections, under SpecFwd.                      *)
(***************************************************************************)
Returned(loop) == loop \in {"eof", "error"}

\* C4: the authority file is removed only after the listener has been
\* closed: in no state has the engine deleted the file while the listener
\* is still open, whatever made Accept fail.
C4_FileRemovedOnlyAfterListenerClosed ==
    removeCalls > 0 => ~ListenerOpen

\* C5: the engine goes from Running to Stopped once, on the first Accept
\* failure; at that step the authority file is deleted, once, and nothing is
\* accepted afterwards; while Running the engine never deletes the file.
C5_StoppedOnceOnFirstAcceptFailure ==
    /\ [](/\ engine \in {"Running", "Stopped"}
          /\ engine = "Running" =>
                 (acceptFailures = 0 /\ removeCalls = 0 /\ xauthExists)
          /\ engine = "Stopped" =>
                 (acceptFailures = 1 /\ removeCalls = 1 /\ ~xauthExists))
    /\ [][/\ (engine = "Running" /\ engine' = "Stopped") =>
                 (/\ acceptFailures' = acceptFailures + 1
                  /\ removeCalls' = removeCalls + 1
                  /\ xauthExists /\ ~xauthExists'
                  /\ conns' = conns)
          /\ engine = "Stopped" =>
                 (/\ engine' = "Stopped"
                  /\ removeCalls' = removeCalls
                  /\ acceptFailures' = acceptFailures
                  /\ nAccepted' = nAccepted)
          /\ acceptFailures' # acceptFailures =>
                 (engine = "Running" /\ engine' = "Stopped")]_vars

\* the engine stopped after accepting every connection, one of which
\* failed to open its sub-channel and one of which relayed with an error
C5_Witness ==
    /\ engine = "Stopped"
    /\ removeCalls = 1
    /\ nAccepted = MaxConns
    /\ \E c \in ConnIds : conns[c].pc = "done" /\ conns[c].chan = "none"
    /\ \E c \in ConnIds : conns[c].l2r = "error"

\* C6: every accepted connection has exactly one OpenChannel attempt, and
\* on every path of its task the local socket is closed exactly once and
\* the sub-channel, if it was opened, exactly once.
C6_OneOpenAndOneCloseEach ==
    \A c \in ConnIds :
        LET t == conns[c]
        IN  /\ t.pc \in {"idle", "open"} =>
                   (t.openCalls = 0 /\ t.connCloses = 0 /\ t.chanCloses = 0)
            /\ t.pc = "wait" =>
                   (t.openCalls = 1 /\ t.connCloses = 0 /\ t.chanCloses = 0)
            /\ t.pc = "done" =>
                   (/\ t.openCalls = 1
                    /\ t.connCloses = 1
                    /\ ~t.connOpen
                    /\ t.chan # "open"
                    /\ t.chanCloses = (IF t.chan = "none" THEN 0 ELSE 1))

\* a task ended after a relay error in one direction and an end-of-stream
\* in the other
C6_Witness ==
    \E c \in ConnIds :
        /\ conns[c].pc = "done"
        /\ conns[c].l2r = "error"
        /\ conns[c].r2l = "eof"
        /\ conns[c].chanCloses = 1

\* a step of the task of connection c, or of its peers
TaskStep(c) == conns[c].pc # "idle" /\ conns'[c] # conns[c]

\* C7: an open failure or a relay error on one accepted connection (any
\* step of its task) leaves the engine Running or Stopped as it was, leaves
\* the authority file, and leaves every other connection as it was; the
\* engine stops only by an Accept failure.
C7_ConnectionFailuresAreLocal ==
    [][/\ \A c \in ConnIds :
              TaskStep(c) =>
                  (/\ engine' = engine
                   /\ removeCalls' = removeCalls
                   /\ xauthExists' = xauthExists
                   /\ lnOpen' = lnOpen
                   /\ \A d \in ConnIds \ {c} : conns'[d] = conns[d])
       /\ engine' # engine => acceptFailures' = acceptFailures + 1]_vars

\* one connection failed to open its sub-channel and is closed, another has
\* had a relay error in one direction and relays in the other, and the
\* engine is Running with its file
C7_Witness ==
    /\ engine = "Running"
    /\ xauthExists
    /\ \E c, d \in ConnIds :
          /\ c # d
          /\ conns[c].pc = "done"
          /\ conns[c].chan = "none"
          /\ conns[d].pc = "wait"
          /\ conns[d].r2l = "error"
          /\ conns[d].l2r = "copy"
          /\ conns[d].chan = "open"

\* C8: with the sub-channel opened, neither the local connection nor the
\* sub-channel is closed by the task while one of the two copy loops is
\* still running.
C8_ClosedOnlyAfterBothLoops ==
    \A c \in ConnIds :
        LET t == conns[c]
        IN  (t.openCalls = 1 /\ t.chan # "none" /\
             (t.connCloses > 0 \/ t.chanCloses > 0 \/ ~t.connOpen \/ t.chan = "closed"))
                => (Returned(t.l2r) /\ Returned(t.r2l) /\ t.wg = 0)

\* both loops returned at end-of-stream, payload relayed both ways, and the
\* task closed the sub-channel and the connection
C8_Witness ==
    \E c \in ConnIds :
        /\ conns[c].closed = <<"channel", "conn">>
        /\ conns[c].l2r = "eof"
        /\ conns[c].r2l = "eof"
        /\ conns[c].chanIn # <<>>
        /\ conns[c].localIn # <<>>

IsPrefix(p, q) == Len(p) <= Len(q) /\ SubSeq(q, 1, Len(p)) = p

\* C9: the sub-channel receives the client's bytes in order; when the
\* client's stream ends after n bytes the sub-channel has received all n
\* and only then is its write direction closed, once; that closes neither
\* the sub-channel nor the connection, and the remote-to-local loop is not
\* ended by it.
C9_LocalToRemoteHalfClose ==
    /\ [](\A c \in ConnIds :
            LET t == conns[c]
            IN  /\ IsPrefix(t.chanIn, t.clientSent)
                /\ t.chanWriteCloses = (IF Returned(t.l2r) THEN 1 ELSE 0)
                /\ t.l2r = "eof" => (t.chanIn = t.clientSent /\ t.sockBuf = <<>>)
                /\ (Returned(t.l2r) /\ t.r2l = "copy") =>
                       (t.chan = "open" /\ t.connOpen /\ t.chanCloses = 0))
    /\ [][\A c \in ConnIds :
             (conns[c].l2r = "copy" /\ conns'[c].l2r # "copy") =>
                 (/\ conns'[c].r2l = conns[c].r2l
                  /\ conns'[c].chan = conns[c].chan
                  /\ conns'[c].chanIn = conns[c].chanIn
                  /\ conns'[c].connOpen = conns[c].connOpen)]_vars

\* the client sent MaxBytes bytes and half-closed, the sub-channel has them
\* all and its write direction closed, and the remote-to-local loop runs
C9_Witness ==
    \E c \in ConnIds :
        /\ Len(conns[c].clientSent) = MaxBytes
        /\ conns[c].l2r = "eof"
        /\ conns[c].chanIn = conns[c].clientSent
        /\ conns[c].chanWriteCloses = 1
        /\ conns[c].r2l = "copy"
        /\ conns[c].chan = "open"

\* C10: when the sub-channel's stream ends, the local connection's write
\* direction is closed if and only if the connection is a TCP connection,
\* and nothing else is closed; the connection stays open and the
\* local-to-remote loop is not ended by it.
C10_RemoteToLocalHalfClose ==
    /\ [](\A c \in ConnIds :
            LET t == conns[c]
            IN  /\ ~Returned(t.r2l) => t.localWriteCloses = 0
                /\ t.r2l = "eof" =>
                       (/\ t.localWriteCloses = 1 <=> tcpListener
                        /\ t.localWriteCloses = 0 <=> ~tcpListener
                        /\ t.localIn = t.remoteSent)
                /\ (Returned(t.r2l) /\ t.l2r = "copy") =>
                       (/\ t.connOpen
                        /\ t.connCloses = 0
                        /\ t.chan = "open"
                        /\ t.chanCloses = 0
                        /\ t.chanWriteCloses = 0))
    /\ [][\A c \in ConnIds :
             (conns[c].r2l = "copy" /\ conns'[c].r2l # "copy") =>
                 (/\ conns'[c].l2r = conns[c].l2r
                  /\ conns'[c].connOpen = conns[c].connOpen
                  /\ conns'[c].chan = conns[c].chan
                  /\ conns'[c].sockBuf = conns[c].sockBuf)]_vars

\* on a connection that is no TCP connection the sub-channel's stream ended
\* after a byte, nothing was closed and the local-to-remote loop runs
C10_Witness ==
    /\ ~tcpListener
    /\ \E c \in ConnIds :
          /\ conns[c].r2l = "eof"
          /\ conns[c].localIn # <<>>
          /\ conns[c].localWriteCloses = 0
          /\ conns[c].l2r = "copy"
          /\ conns[c].connOpen

(***************************************************************************)
(* The request parsers, lines 211-308.                                     *)
(*                                                                         *)
(* A uint32 is the pair <<hi, lo>> of its 16-bit halves, hi * 2^16 + lo,   *)
(* so that the values from 2^31 on and the wrap of uint32 addition are     *)
(* kept.  int is 64 bits wide: int(u) of a uint32 u is u, kept as the      *)
(* same pair.  A nil slice and an empty slice are both <<>>.               *)
(*                                                                         *)
(* A parser's result is [ok, val, rest, panic]; panic is a run-time panic  *)
(* of the call, which then returns nothing.                                *)
(***************************************************************************)
\* at most this many chunks make up a payload
MaxChunks == 4

Zero32 == <<0, 0>>

\* binary.BigEndian.Uint32(in)
BigEndianUint32(in) == <<256 * in[1] + in[2], 256 * in[3] + in[4]>>

\* uint32(n) of a length n
Uint32OfLen(n) == <<(n \div Uint16Mod) % Uint16Mod, n % Uint16Mod>>

\* 4 + u in uint32
Uint32Add4(u) == <<(u[1] + ((u[2] + 4) \div Uint16Mod)) % Uint16Mod,
                   (u[2] + 4) % Uint16Mod>>

\* a < b in uint32
Uint32Less(a, b) == a[1] < b[1] \/ (a[1] = b[1] /\ a[2] < b[2])

ParseFailed == [ok |-> FALSE, val |-> <<>>, rest |-> <<>>, panic |-> FALSE]
ParsePanic == [ok |-> FALSE, val |-> <<>>, rest |-> <<>>, panic |-> TRUE]

\* parseString, lines 282-294.  4+length is a uint32 sum and wraps; the
\* slice in[4 : 4+length] panics when its upper index is below 4.
parseString(in) ==
    IF Len(in) < 4 THEN ParseFailed
    ELSE LET length == BigEndianUint32(in)
             end == Uint32Add4(length)
         IN  IF Uint32Less(Uint32OfLen(Len(in)), end) THEN ParseFailed
             ELSE IF end[2] < 4 THEN ParsePanic
             ELSE [ok |-> TRUE,
                   val |-> SubSeq(in, 5, end[2]),
                   rest |-> SubSeq(in, end[2] + 1, Len(in)),
                   panic |-> FALSE]

\* parseUint32, lines 296-301
parseUint32(in) ==
    IF Len(in) < 4 THEN [ok |-> FALSE, val |-> Zero32, rest |-> <<>>, panic |-> FALSE]
    ELSE [ok |-> TRUE, val |-> BigEndianUint32(in),
          rest |-> SubSeq(in, 5, Len(in)), panic |-> FALSE]

\* parseBool taking every non-zero byte for true
parseBool_NonZeroIsTrue(in) ==
    IF Len(in) < 1 THEN [ok |-> FALSE, val |-> FALSE, rest |-> <<>>, panic |-> FALSE]
    ELSE [ok |-> TRUE, val |-> (in[1] # 0),
          rest |-> SubSeq(in, 2, Len(in)), panic |-> FALSE]

\* parseBool, lines 303-308
parseBool(in) ==
    IF Len(in) < 1 THEN [ok |-> FALSE, val |-> FALSE, rest |-> <<>>, panic |-> FALSE]
    ELSE [ok |-> TRUE, val |-> (in[1] = 1),
          rest |-> SubSeq(in, 2, Len(in)), panic |-> FALSE]

\* the zero values of Window, Pty and X11
ZeroWindow == [Width |-> Zero32, Height |-> Zero32]
ZeroPty == [Term |-> <<>>, Window |-> ZeroWindow]
ZeroX11 == [SingleConnection |-> FALSE, AuthProtocol |-> <<>>, AuthData |-> <<>>,
            ScreenNumber |-> Zero32]

\* what a request parser returns: the struct and ok, or a panic
Parsed(val, ok) == [ok |-> ok, val |-> val, rest |-> <<>>, panic |-> FALSE]
Panicked(zero) == [ok |-> FALSE, val |-> zero, rest |-> <<>>, panic |-> TRUE]

\* parsePtyRequest, lines 211-232
parsePtyRequest(s) ==
    LET term == parseString(s)
        width32 == parseUint32(term.rest)
        height32 == parseUint32(width32.rest)
    IN  IF term.panic THEN Panicked(ZeroPty)
        ELSE IF ~term.ok THEN Parsed(ZeroPty, FALSE)
        ELSE IF ~width32.ok THEN Parsed(ZeroPty, FALSE)
        ELSE IF ~height32.ok THEN Parsed(ZeroPty, FALSE)
        ELSE Parsed([Term |-> term.val,
                     Window |-> [Width |-> width32.val, Height |-> height32.val]],
                    TRUE)

\* parseX11Request, lines 234-258
parseX11Request(s) ==
    LET single == parseBool(s)
        protocol == parseString(single.rest)
        data == parseString(protocol.rest)
        screen == parseUint32(data.rest)
    IN  IF ~single.ok THEN Parsed(ZeroX11, FALSE)
        ELSE IF protocol.panic THEN Panicked(ZeroX11)
        ELSE IF ~protocol.ok THEN Parsed(ZeroX11, FALSE)
        ELSE IF data.panic THEN Panicked(ZeroX11)
        ELSE IF ~data.ok THEN Parsed(ZeroX11, FALSE)
        ELSE IF ~screen.ok THEN Parsed(ZeroX11, FALSE)
        ELSE Parsed([SingleConnection |-> single.val,
                     AuthProtocol |-> protocol.val,
                     AuthData |-> data.val,
                     ScreenNumber |-> screen.val],
                    TRUE)

\* parseWinchRequest accepting a zero height
parseWinchRequest_ZeroHeight(s) ==
    LET width32 == parseUint32(s)
        ok1 == IF Uint32Less(width32.val, <<0, 1>>) THEN FALSE ELSE width32.ok
        height32 == parseUint32(width32.rest)
    IN  IF ~ok1 THEN Parsed(ZeroWindow, FALSE)
        ELSE IF ~height32.ok THEN Parsed(ZeroWindow, FALSE)
        ELSE Parsed([Width |-> width32.val, Height |-> height32.val], TRUE)

\* parseWinchRequest, lines 260-280
parseWinchRequest(s) ==
    LET width32 == parseUint32(s)
        ok1 == IF Uint32Less(width32.val, <<0, 1>>) THEN FALSE ELSE width32.ok
        height32 == parseUint32(width32.rest)
        ok2 == IF Uint32Less(height32.val, <<0, 1>>) THEN FALSE ELSE height32.ok
    IN  IF ~ok1 THEN Parsed(ZeroWindow, FALSE)
        ELSE IF ~ok2 THEN Parsed(ZeroWindow, FALSE)
        ELSE Parsed([Width |-> width32.val, Height |-> height32.val], TRUE)

(***************************************************************************)
(* The payloads: every buffer of one byte, every byte followed by one more *)
(* byte, and the buffers made of at most MaxChunks chunks, a chunk being a *)
(* 4-byte word (0, 1, 2, 2^32-4, 2^32-1) or a single byte (1, 65).         *)
(***************************************************************************)
Chunks == {<<0, 0, 0, 0>>, <<0, 0, 0, 1>>, <<0, 0, 0, 2>>,
           <<255, 255, 255, 252>>, <<255, 255, 255, 255>>,
           <<1>>, <<65>>}

RECURSIVE ChunkBufs(_)
ChunkBufs(n) == IF n = 0 THEN {<<>>}
                ELSE ChunkBufs(n - 1) \cup
                     {b \o c : b \in ChunkBufs(n - 1), c \in Chunks}

ByteBufs == {<<b>> : b \in 0..255} \cup {<<b, 7>> : b \in 0..255}

ParseInit ==
    /\ parseIn \in ByteBufs \cup ChunkBufs(MaxChunks)
    /\ parseOut = NoOutput
    /\ xaIn = NoInput
    /\ xaOut = NoOutput
    /\ RaceIdle
    /\ FwdIdle
    /\ apc = "start"
    /\ request = [AuthProtocol |-> <<77, 73, 84>>, AuthData |-> <<97, 49>>]
    /\ littleEndian = TRUE
    /\ freePorts = {}
    /\ i = 0
    /\ err = NilErr
    /\ bindErr = NilErr
    /\ ln = NoListener
    /\ buf = <<>>
    /\ attempts = <<>>
    /\ ret = NoReturn
    /\ lnOpen = {}
    /\ xauthExists = FALSE
    /\ xauthContent = <<>>

\* a parser is applied to the payload
Apply(fn, result) ==
    /\ parseOut = NoOutput
    /\ parseOut' = [fn |-> fn, r |-> result]
    /\ UNCHANGED <<parseIn, xaIn, xaOut>>
    /\ UNCHANGED <<allocVars, fileVars, fwdVars, raceVars>>

ApplyParseString == Apply("parseString", parseString(parseIn))
ApplyParseUint32 == Apply("parseUint32", parseUint32(parseIn))
ApplyParseBool == Apply("parseBool", parseBool(parseIn))
ApplyParsePtyRequest == Apply("parsePtyRequest", parsePtyRequest(parseIn))
ApplyParseX11Request == Apply("parseX11Request", parseX11Request(parseIn))
ApplyParseWinchRequest == Apply("parseWinchRequest", parseWinchRequest(parseIn))

ParseNext ==
    \/ ApplyParseString
    \/ ApplyParseUint32
    \/ ApplyParseBool
    \/ ApplyParsePtyRequest
    \/ ApplyParseX11Request
    \/ ApplyParseWinchRequest

SpecParse == ParseInit /\ [][ParseNext]_vars

(***************************************************************************)
(* C11.  For every buffer and every declared length 0 .. 2^32-1 of its     *)
(* 4-byte prefix, parseString never panics, fails when fewer than 4 bytes  *)
(* remain or the declared length exceeds the bytes after the prefix, and   *)
(* succeeds only when 4 + declared length <= len(buffer), returning        *)
(* exactly those bytes and the remainder.                                  *)
(* Violated: with a declared length of 2^32-4 .. 2^32-1 the uint32 sum     *)
(* 4+length wraps to 0 .. 3, the length check passes and in[4 : 4+length]  *)
(* panics.                                                                 *)
(***************************************************************************)
C11_ParseStringChecksDeclaredLength ==
    parseOut.fn = "parseString" =>
        LET r == parseOut.r
            n == Len(parseIn)
        IN  /\ ~r.panic
            /\ n < 4 => ~r.ok
            /\ n >= 4 =>
                 LET declared == BigEndianUint32(parseIn)
                     fits == declared[1] = 0 /\ 4 + declared[2] <= n
                 IN  /\ r.ok <=> fits
                     /\ r.ok => /\ r.val = SubSeq(parseIn, 5, 4 + declared[2])
                                /\ r.rest = SubSeq(parseIn, 5 + declared[2], n)

(***************************************************************************)
(* C12.  parseWinchRequest returns ok=true if and only if the payload has  *)
(* at least 8 bytes and the decoded big-endian width and height are both   *)
(* >= 1; otherwise it returns ok=false with the zero Window; on success    *)
(* the Window holds exactly the decoded width and height.                  *)
(***************************************************************************)
C12_WinchRejectsZeroDimensions ==
    parseOut.fn = "parseWinchRequest" =>
        LET r == parseOut.r
            n == Len(parseIn)
            width == BigEndianUint32(SubSeq(parseIn, 1, 4))
            height == BigEndianUint32(SubSeq(parseIn, 5, 8))
        IN  /\ ~r.panic
            /\ r.ok <=> (n >= 8 /\ width # Zero32 /\ height # Zero32)
            /\ r.ok => r.val = [Width |-> width, Height |-> height]
            /\ ~r.ok => r.val = ZeroWindow

\* a well-formed payload of width 1 and height 0 has been rejected
C12_Witness ==
    /\ parseOut.fn = "parseWinchRequest"
    /\ Len(parseIn) >= 8
    /\ BigEndianUint32(SubSeq(parseIn, 1, 4)) = <<0, 1>>
    /\ BigEndianUint32(SubSeq(parseIn, 5, 8)) = Zero32
    /\ ~parseOut.r.ok
    /\ parseOut.r.val = ZeroWindow

(***************************************************************************)
(* C13.  For every non-empty buffer parseBool succeeds, consumes exactly   *)
(* one byte and returns true if and only if that byte is 1; for the empty  *)
(* buffer it fails.                                                        *)
(***************************************************************************)
C13_BoolTrueOnlyForOne ==
    parseOut.fn = "parseBool" =>
        LET r == parseOut.r
        IN  /\ parseIn = <<>> => ~r.ok
            /\ parseIn # <<>> => /\ r.ok
                                 /\ ~r.panic
                                 /\ r.rest = Tail(parseIn)
                                 /\ r.val <=> (parseIn[1] = 1)

\* a first byte of 2 has been decoded as false, one byte consumed
C13_Witness ==
    /\ parseOut.fn = "parseBool"
    /\ parseIn = <<2, 7>>
    /\ parseOut.r.ok
    /\ parseOut.r.val = FALSE
    /\ parseOut.r.rest = <<7>>

(***************************************************************************)
(* C20.  parsePtyRequest (string, uint32, uint32) and parseX11Request      *)
(* (bool, string, string, uint32) decode their fields in that order: ok is *)
(* true if and only if every field decodes, the result then holds exactly  *)
(* the fields' values whatever bytes follow them, and on any field failure *)
(* the result is ok=false with the zero-valued struct.                     *)
(* Violated through C11: a string field declaring 2^32-4 .. 2^32-1 bytes   *)
(* does not decode, and the parser panics instead of returning ok=false.   *)
(***************************************************************************)
\* the wire fields: a string field decodes when its declared length fits
StringField(in) ==
    IF Len(in) >= 4 /\ BigEndianUint32(in)[1] = 0
                    /\ 4 + BigEndianUint32(in)[2] <= Len(in)
    THEN [ok |-> TRUE,
          val |-> SubSeq(in, 5, 4 + BigEndianUint32(in)[2]),
          rest |-> SubSeq(in, 5 + BigEndianUint32(in)[2], Len(in))]
    ELSE [ok |-> FALSE, val |-> <<>>, rest |-> <<>>]

Uint32Field(in) ==
    IF Len(in) >= 4
    THEN [ok |-> TRUE, val |-> BigEndianUint32(in), rest |-> SubSeq(in, 5, Len(in))]
    ELSE [ok |-> FALSE, val |-> Zero32, rest |-> <<>>]

BoolField(in) ==
    IF Len(in) >= 1
    THEN [ok |-> TRUE, val |-> (in[1] = 1), rest |-> Tail(in)]
    ELSE [ok |-> FALSE, val |-> FALSE, rest |-> <<>>]

\* the two decoders agree with the field-by-field decoding, panics aside
C20_FieldsDecoded ==
    /\ parseOut.fn = "parsePtyRequest" /\ ~parseOut.r.panic =>
         LET r == parseOut.r
             term == StringField(parseIn)
             width == Uint32Field(term.rest)
             height == Uint32Field(width.rest)
         IN  /\ r.ok <=> (term.ok /\ width.ok /\ height.ok)
             /\ r.ok => r.val = [Term |-> term.val,
                                 Window |-> [Width |-> width.val,
                                             Height |-> height.val]]
             /\ ~r.ok => r.val = ZeroPty
    /\ parseOut.fn = "parseX11Request" /\ ~parseOut.r.panic =>
         LET r == parseOut.r
             single == BoolField(parseIn)
             protocol == StringField(single.rest)
             data == StringField(protocol.rest)
             screen == Uint32Field(data.rest)
         IN  /\ r.ok <=> (single.ok /\ protocol.ok /\ data.ok /\ screen.ok)
             /\ r.ok => r.val = [SingleConnection |-> single.val,
                                 AuthProtocol |-> protocol.val,
                                 AuthData |-> data.val,
                                 ScreenNumber |-> screen.val]
             /\ ~r.ok => r.val = ZeroX11

C20_RequestParsersAllOrNothing ==
    /\ C20_FieldsDecoded
    /\ parseOut.fn \in {"parsePtyRequest", "parseX11Request"} => ~parseOut.r.panic

(***************************************************************************)
(* prepareXAuthority on its own.  An input is described by the lengths of  *)
(* the hostname, of the protocol name and of the decoded auth data, the    *)
(* seat, the byte order of the host, and whether os.Hostname and the hex   *)
(* decoding succeed; the strings themselves are filled with a pattern.     *)
(***************************************************************************)
\* hostnames have 1 .. MaxHostLen bytes
MaxHostLen == 2

\* n bytes base, base+1, ..., cycling over 16 values
Fill(n, base) == [k \in 1..n |-> base + (k % 16)]

\* n auth data bytes
DataBytes(n) == [k \in 1..n |-> (17 * k + 3) % 256]

\* the lower-case hex string of bytes, as the client sends the auth data
HexDigit(v) == IF v < 10 THEN 48 + v ELSE 87 + v
HexEncode(bytes) ==
    [k \in 1..(2 * Len(bytes)) |->
        IF k % 2 = 1 THEN HexDigit(bytes[(k + 1) \div 2] \div 16)
        ELSE HexDigit(bytes[k \div 2] % 16)]

Seats == X11DisplayOffset..(X11DisplayOffset + BindAttempts - 1)

\* protocol names and auth data that fit the 16-bit lengths
SmallInputs ==
    [kind : {"call"}, hostLen : 1..MaxHostLen, hostOk : BOOLEAN, seat : Seats,
     nameLen : {0, 18}, dataLen : {0, 16, 256}, hexOk : BOOLEAN,
     little : BOOLEAN]

\* protocol names of 2^16 bytes and around, as a client may send them
LongInputs ==
    [kind : {"call"}, hostLen : 1..MaxHostLen, hostOk : {TRUE}, seat : {X11DisplayOffset},
     nameLen : {65523, 65535, 65536, 65537}, dataLen : {0, 16}, hexOk : {TRUE},
     little : {TRUE}]

\* the arguments and the environment an input stands for
XaRequest(in) ==
    [AuthProtocol |-> Fill(in.nameLen, 65),
     AuthData |-> IF in.hexOk THEN HexEncode(DataBytes(in.dataLen))
                  ELSE Append(HexEncode(DataBytes(in.dataLen)), 122)]
XaHost(in) == IF in.hostOk THEN [ok |-> TRUE, name |-> Fill(in.hostLen, 104)]
              ELSE [ok |-> FALSE, name |-> <<>>]

XauthInit ==
    /\ xaIn \in SmallInputs \cup LongInputs
    /\ xaOut = NoOutput
    /\ parseIn = <<>>
    /\ parseOut = NoOutput
    /\ RaceIdle
    /\ FwdIdle
    /\ apc = "start"
    /\ request = [AuthProtocol |-> <<77, 73, 84>>, AuthData |-> <<97, 49>>]
    /\ littleEndian = TRUE
    /\ freePorts = {}
    /\ i = 0
    /\ err = NilErr
    /\ bindErr = NilErr
    /\ ln = NoListener
    /\ buf = <<>>
    /\ attempts = <<>>
    /\ ret = NoReturn
    /\ lnOpen = {}
    /\ xauthExists = FALSE
    /\ xauthContent = <<>>

\* prepareXAuthority is called
ApplyPrepareXAuthority ==
    /\ xaOut = NoOutput
    /\ xaOut' = [fn |-> "prepareXAuthority",
                 r |-> prepareXAuthority(XaRequest(xaIn), xaIn.seat,
                                         XaHost(xaIn), xaIn.little)]
    /\ UNCHANGED <<parseIn, parseOut, xaIn>>
    /\ UNCHANGED <<allocVars, fileVars, fwdVars, raceVars>>

XauthNext == ApplyPrepareXAuthority

SpecXauth == XauthInit /\ [][XauthNext]_vars

(***************************************************************************)
(* The reading of an authority record field by field: the 2-byte family,   *)
(* then four fields, each preceded by its big-endian uint16 length.        *)
(***************************************************************************)
RECURSIVE ReadFields(_, _, _)
ReadFields(b, pos, n) ==
    IF n = 0 THEN [ok |-> TRUE, fields |-> <<>>, left |-> Len(b) - pos]
    ELSE IF pos + 2 > Len(b) THEN [ok |-> FALSE, fields |-> <<>>, left |-> 0]
    ELSE LET length == ReadBigEndian16(b, pos)
         IN  IF pos + 2 + length > Len(b)
             THEN [ok |-> FALSE, fields |-> <<>>, left |-> 0]
             ELSE LET more == ReadFields(b, pos + 2 + length, n - 1)
                  IN  [ok |-> more.ok,
                       fields |-> <<SubSeq(b, pos + 3, pos + 2 + length)>> \o more.fields,
                       left |-> more.left]

ReadRecord(b) ==
    IF Len(b) < 2 THEN [ok |-> FALSE, fields |-> <<>>, left |-> 0]
    ELSE ReadFields(b, 2, 4)

\* every field, and the record, has a length below 2^16
FitsRecord(in) ==
    in.hostLen + Len(Itoa(in.seat)) + in.nameLen + in.dataLen + 10 < Uint16Mod

C15_LengthsAreTrueLengths ==
    (/\ xaOut.fn = "prepareXAuthority"
     /\ xaIn.hostOk /\ xaIn.hexOk) =>
        LET b == xaOut.r.buf
            addrLen == xaIn.hostLen
            numberLen == Len(Itoa(xaIn.seat))
            nameLen == xaIn.nameLen
            dataLen == xaIn.dataLen
        IN  /\ ~xaOut.r.panic
            /\ xaOut.r.err = NilErr
            /\ Len(b) = addrLen + numberLen + nameLen + dataLen + 10
            /\ ReadBigEndian16(b, 2) = addrLen
            /\ ReadBigEndian16(b, 4 + addrLen) = numberLen
            /\ ReadBigEndian16(b, 6 + addrLen + numberLen) = nameLen
            /\ ReadBigEndian16(b, 8 + addrLen + numberLen + nameLen) = dataLen

(***************************************************************************)
(* C16.  Whenever NewX11Forwarder has returned a listener, the authority   *)
(* file exists and holds the complete record of that listener's display    *)
(* number: hostname, display number, protocol name and decoded auth data,  *)
(* nothing missing and nothing left over.  The same holds from the moment  *)
(* the call is about to return the listener.                               *)
(***************************************************************************)
CompleteRecordFor(port) ==
    LET read == ReadRecord(xauthContent)
    IN  /\ xauthExists
        /\ xauthContent # <<>>
        /\ xauthContent = buf
        /\ read.ok
        /\ read.left = 0
        /\ \E host \in Hostnames : host.ok /\ read.fields[1] = host.name
        /\ read.fields[2] = Itoa(port - X11DisplayBasePort)
        /\ read.fields[3] = request.AuthProtocol
        /\ read.fields[4] = HexDecodeString(request.AuthData).bytes

C16_FileCompleteBeforeReturn ==
    /\ (apc = "returned" /\ ret.ln # NoListener) => CompleteRecordFor(ret.ln)
    /\ apc = "return" => CompleteRecordFor(ln)

\* a listener has been returned after earlier candidate ports were busy
C16_Witness ==
    /\ apc = "returned"
    /\ ret.ln # NoListener
    /\ ret.ln > CandidatePort(0)
    /\ ret.ln \in lnOpen
    /\ CompleteRecordFor(ret.ln)

(***************************************************************************)
(* Concurrent calls of NewX11Forwarder, lines 111-148, in one process.     *)
(* Each call is a record: pc its position, i the loop index, ln the port   *)
(* of its listener (NoListener before the bind), open whether that         *)
(* listener is open, file the name of its temporary file (NoFile when it   *)
(* holds none).  The calls share the host's ports (freePorts: the          *)
(* candidate ports no other process holds; lnOpen: the ports bound by      *)
(* open listeners of the calls) and the temporary directory (tempFiles:    *)
(* the names that exist).  A returned listener is later closed by its      *)
(* owner and its file removed by ForwardX11Connections (line 153).         *)
(***************************************************************************)
\* this many calls run concurrently
MaxCallers == 2

\* at most this many of the first candidate ports are held by other processes
MaxBusy == 2

Callers == 1..MaxCallers
FileNames == 1..MaxCallers
NoFile == 0

NoCall == [pc |-> "idle", i |-> 0, ln |-> NoListener, open |-> FALSE, file |-> NoFile]

\* the first MaxBusy candidate ports
FirstPorts == {CandidatePort(k) : k \in 0..(MaxBusy - 1)}

RaceInit ==
    /\ calls = [c \in Callers |-> NoCall]
    /\ tempFiles = {}
    /\ \/ freePorts = {}
       \/ \E busy \in SUBSET FirstPorts : freePorts = CandidatePorts \ busy
    /\ lnOpen = {}
    /\ PureIdle
    /\ FwdIdle
    /\ apc = "start"
    /\ request = [AuthProtocol |-> <<77, 73, 84>>, AuthData |-> <<97, 49>>]
    /\ littleEndian = TRUE
    /\ i = 0
    /\ err = NilErr
    /\ bindErr = NilErr
    /\ ln = NoListener
    /\ buf = <<>>
    /\ attempts = <<>>
    /\ ret = NoReturn
    /\ xauthExists = FALSE
    /\ xauthContent = <<>>

\* what a step of a call leaves alone
RaceUnchanged ==
    /\ UNCHANGED <<allocVars, xauthExists, xauthContent>>
    /\ UNCHANGED <<fwdVars, pureVars>>

\* os.CreateTemp: a name that does not exist is created, line 114
RaceCreateTemp(c) ==
    /\ calls[c].pc = "idle"
    /\ \E f \in FileNames \ tempFiles :
         /\ calls' = [calls EXCEPT ![c].pc = "loop", ![c].file = f]
         /\ tempFiles' = tempFiles \cup {f}
    /\ UNCHANGED lnOpen
    /\ RaceUnchanged

\* os.CreateTemp failed: return nil, nil, err, lines 115-117
RaceCreateTempFail(c) ==
    /\ calls[c].pc = "idle"
    /\ calls' = [calls EXCEPT ![c].pc = "failed"]
    /\ UNCHANGED <<tempFiles, lnOpen>>
    /\ RaceUnchanged

\* net.Listen bound the candidate port, line 125
RaceListenOk(c) ==
    /\ calls[c].pc = "loop"
    /\ calls[c].i < BindAttempts
    /\ ListenSucceeds(CandidatePort(calls[c].i))
    /\ calls' = [calls EXCEPT ![c].pc = "prepare",
                              ![c].ln = CandidatePort(calls[c].i),
                              ![c].open = TRUE]
    /\ lnOpen' = lnOpen \cup {CandidatePort(calls[c].i)}
    /\ UNCHANGED tempFiles
    /\ RaceUnchanged

\* net.Listen failed: log.Println(err), i++, lines 125, 143
RaceListenFail(c) ==
    /\ calls[c].pc = "loop"
    /\ calls[c].i < BindAttempts
    /\ ~ListenSucceeds(CandidatePort(calls[c].i))
    /\ calls' = [calls EXCEPT ![c].i = calls[c].i + 1]
    /\ UNCHANGED <<tempFiles, lnOpen>>
    /\ RaceUnchanged

\* prepareXAuthority succeeded, line 127
RacePrepareOk(c) ==
    /\ calls[c].pc = "prepare"
    /\ calls' = [calls EXCEPT ![c].pc = "write"]
    /\ UNCHANGED <<tempFiles, lnOpen>>
    /\ RaceUnchanged

\* prepareXAuthority failed: ln.Close(); os.Remove(xauthFile.Name());
\* return nil, nil, err, lines 128-132
RacePrepareFail(c) ==
    /\ calls[c].pc = "prepare"
    /\ calls' = [calls EXCEPT ![c].pc = "failed", ![c].open = FALSE, ![c].file = NoFile]
    /\ lnOpen' = lnOpen \ {calls[c].ln}
    /\ tempFiles' = tempFiles \ {calls[c].file}
    /\ RaceUnchanged

\* os.WriteFile failed: ln.Close(); os.Remove(xauthFile.Name());
\* return nil, nil, err, lines 135-139
RaceWriteFail(c) ==
    /\ calls[c].pc = "write"
    /\ calls' = [calls EXCEPT ![c].pc = "failed", ![c].open = FALSE, ![c].file = NoFile]
    /\ lnOpen' = lnOpen \ {calls[c].ln}
    /\ tempFiles' = tempFiles \ {calls[c].file}
    /\ RaceUnchanged

\* os.WriteFile succeeded and return ln, xauthFile, nil, lines 134-141
RaceWriteOk(c) ==
    /\ calls[c].pc = "write"
    /\ calls' = [calls EXCEPT ![c].pc = "returned"]
    /\ UNCHANGED <<tempFiles, lnOpen>>
    /\ RaceUnchanged

\* the loop ended: os.Remove(xauthFile.Name()); return nil, nil, err,
\* lines 146-147
RaceExhausted(c) ==
    /\ calls[c].pc = "loop"
    /\ calls[c].i >= BindAttempts
    /\ calls' = [calls EXCEPT ![c].pc = "failed", ![c].file = NoFile]
    /\ tempFiles' = tempFiles \ {calls[c].file}
    /\ UNCHANGED lnOpen
    /\ RaceUnchanged

\* the owner closes the returned listener
RaceCloseListener(c) ==
    /\ calls[c].pc = "returned"
    /\ calls' = [calls EXCEPT ![c].pc = "closed", ![c].open = FALSE]
    /\ lnOpen' = lnOpen \ {calls[c].ln}
    /\ UNCHANGED tempFiles
    /\ RaceUnchanged

\* ForwardX11Connections returns on the closed listener: os.Remove, line 153
RaceRemoveFile(c) ==
    /\ calls[c].pc = "closed"
    /\ calls' = [calls EXCEPT ![c].pc = "released", ![c].file = NoFile]
    /\ tempFiles' = tempFiles \ {calls[c].file}
    /\ UNCHANGED lnOpen
    /\ RaceUnchanged

RaceNext ==
    \E c \in Callers :
        \/ RaceCreateTemp(c)
        \/ RaceCreateTempFail(c)
        \/ RaceListenOk(c)
        \/ RaceListenFail(c)
        \/ RacePrepareOk(c)
        \/ RacePrepareFail(c)
        \/ RaceWriteOk(c)
        \/ RaceWriteFail(c)
        \/ RaceExhausted(c)
        \/ RaceCloseListener(c)
        \/ RaceRemoveFile(c)

SpecRace == RaceInit /\ [][RaceNext]_vars

(***************************************************************************)
(* C17.  With an exclusive bind, under every interleaving of concurrent    *)
(* NewX11Forwarder calls, no two calls whose listeners are open at the     *)
(* same time hold the same port (hence the same display number), and the   *)
(* calls that have returned a listener hold distinct, existing temporary   *)
(* files.                                                                  *)
(***************************************************************************)
Display(c) == calls[c].ln - X11DisplayBasePort

C17_ConcurrentAllocationsDistinct ==
    \A c \in DOMAIN calls : \A d \in DOMAIN calls :
        c # d =>
            /\ (calls[c].open /\ calls[d].open) =>
                   /\ calls[c].ln # calls[d].ln
                   /\ Display(c) # Display(d)
            /\ (calls[c].pc = "returned" /\ calls[d].pc = "returned") =>
                   /\ calls[c].file # calls[d].file
                   /\ {calls[c].file, calls[d].file} \subseteq tempFiles

\* two calls have returned listeners that are open together, the second of
\* them having found the first one's port taken
C17_Witness ==
    \E c \in DOMAIN calls : \E d \in DOMAIN calls :
        /\ c # d
        /\ calls[c].pc = "returned" /\ calls[d].pc = "returned"
        /\ calls[c].open /\ calls[d].open
        /\ calls[d].i = calls[c].i + 1
        /\ calls[c].file # calls[d].file

(***************************************************************************)
(* C18.  Stopping the engine (Accept failure, file deleted, return of      *)
(* ForwardX11Connections) closes or cancels no relay task in flight: the   *)
(* stop step changes no connection; after the stop nothing is accepted;    *)
(* a connection's socket and sub-channel are closed only once both of its  *)
(* copy loops have returned (or its OpenChannel failed); and while a loop  *)
(* of a stopped engine has bytes to relay, its copy step stays enabled.    *)
(***************************************************************************)
BothLoopsReturned(c) ==
    /\ conns[c].l2r \in {"eof", "error"}
    /\ conns[c].r2l \in {"eof", "error"}

C18_Step ==
    /\ (engine = "Running" /\ engine' = "Stopped") => conns' = conns
    /\ engine = "Stopped" => (engine' = "Stopped" /\ nAccepted' = nAccepted)
    /\ engine' = "Stopped" =>
         \A c \in ConnIds :
            /\ (conns[c].connOpen /\ ~conns'[c].connOpen) =>
                   (conns[c].pc = "open" \/ BothLoopsReturned(c))
            /\ (conns[c].chan = "open" /\ conns'[c].chan # "open") =>
                   BothLoopsReturned(c)

C18_InFlight ==
    engine = "Stopped" =>
        \A c \in ConnIds :
            (conns[c].pc = "wait" /\ ~BothLoopsReturned(c)) =>
                /\ conns[c].connOpen
                /\ conns[c].chan = "open"
                /\ (conns[c].l2r = "copy" /\ conns[c].sockBuf # <<>>) =>
                       ENABLED L2RCopy(c)
                /\ (conns[c].r2l = "copy" /\ conns[c].chanBuf # <<>>) =>
                       ENABLED R2LCopy(c)

C18_StopLeavesTasksRunning == []C18_InFlight /\ [][C18_Step]_vars

\* the engine has stopped while a task is relaying: both loops copying,
\* a byte of the client waiting to be relayed, socket and sub-channel open
C18_Witness ==
    /\ engine = "Stopped"
    /\ removeCalls = 1
    /\ ~xauthExists
    /\ \E c \in ConnIds :
         /\ conns[c].pc = "wait"
         /\ conns[c].l2r = "copy" /\ conns[c].r2l = "copy"
         /\ conns[c].sockBuf # <<>>
         /\ conns[c].connOpen /\ conns[c].chan = "open"

(***************************************************************************)
(* ForwardX11Connections under fair scheduling of the goroutines of each   *)
(* connection: the local-to-remote goroutine (io.Copy moving a byte, or    *)
(* reading the end of the client's stream once every byte before it is     *)
(* read), the remote-to-local goroutine likewise, and the task blocked in  *)
(* wg.Wait().  The peers send finitely many bytes and then end their       *)
(* streams.  Nothing is assumed of Accept or of the listener's owner.      *)
(* The connection that carries the payload is the first one and the        *)
(* listener is a TCP listener.                                             *)
(***************************************************************************)
LiveInit ==
    /\ FwdInit
    /\ tcpListener = TRUE
    /\ payloadConn = 1

LiveFairness ==
    \A c \in ConnIds :
        /\ WF_vars(L2RCopy(c) \/ L2REof(c))
        /\ WF_vars(R2LCopy(c) \/ R2LEof(c))
        /\ WF_vars(TaskReturn(c))

SpecFwdLive == LiveInit /\ [][FwdNext]_vars /\ LiveFairness

(***************************************************************************)
(* C19.  For every accepted connection whose sub-channel opened, once both *)
(* streams end (or fail) both copy loops return and the task closes the    *)
(* sub-channel and then the local connection, waiting on nothing else:     *)
(* no task stays blocked in wg.Wait() for ever, and a task whose channel   *)
(* was opened and that is done has had both loops return and has closed    *)
(* the sub-channel first and the connection second.                        *)
(***************************************************************************)
C19_TaskEventuallyClosesBoth ==
    /\ \A c \in ConnIds : []<>(conns[c].pc # "wait")
    /\ [](\A c \in ConnIds :
            (conns[c].pc = "done" /\ conns[c].chan # "none") =>
                /\ BothLoopsReturned(c)
                /\ conns[c].closed = <<"channel", "conn">>
                /\ conns[c].chan = "closed"
                /\ ~conns[c].connOpen)

\* a task whose loops both read end-of-stream after relaying data has
\* closed the sub-channel and then the connection, the engine still running
C19_Witness ==
    \E c \in ConnIds :
        /\ conns[c].pc = "done"
        /\ conns[c].l2r = "eof" /\ conns[c].r2l = "eof"
        /\ conns[c].chanIn # <<>>
        /\ conns[c].closed = <<"channel", "conn">>
        /\ engine = "Running"

====
